---- MODULE Spec2Model ----
(***************************************************************************)
(* Model of the date-selection prompt of inquire                           *)
(* (inquire/src/prompts/dateselect/prompt.rs): DateSelectPrompt::new,      *)
(* handle, submit and the helpers they call.                               *)
(*                                                                         *)
(* A NaiveDate is a triple <<year, month, day>> with month in 1..12.       *)
(* Option<NaiveDate>::None is the triple NoDate.                           *)
(***************************************************************************)
EXTENDS Integers, Sequences, FiniteSets, TLC

\* Number of years after 2023 that the calendar of the model covers.
YearSpan == 1

Years == 2023..(2023 + YearSpan)

NoDate == <<0, 0, 0>>

----------------------------------------------------------------------------
(* chrono::NaiveDate, as far as the prompt uses it. *)

IsLeapYear(y) == (y % 4 = 0) /\ ((y % 100 # 0) \/ (y % 400 = 0))

DaysInMonth(y, m) ==
    IF m = 2 THEN (IF IsLeapYear(y) THEN 29 ELSE 28)
    ELSE IF m \in {4, 6, 9, 11} THEN 30 ELSE 31

\* Ord for NaiveDate: chronological order.
DateLt(a, b) ==
    \/ a[1] < b[1]
    \/ a[1] = b[1] /\ a[2] < b[2]
    \/ a[1] = b[1] /\ a[2] = b[2] /\ a[3] < b[3]

DateMax(a, b) == IF DateLt(a, b) THEN b ELSE a

DateMin(a, b) == IF DateLt(b, a) THEN b ELSE a

NextDay(dt) ==
    IF dt[3] < DaysInMonth(dt[1], dt[2]) THEN <<dt[1], dt[2], dt[3] + 1>>
    ELSE IF dt[2] < 12 THEN <<dt[1], dt[2] + 1, 1>>
    ELSE <<dt[1] + 1, 1, 1>>

PrevDay(dt) ==
    IF dt[3] > 1 THEN <<dt[1], dt[2], dt[3] - 1>>
    ELSE IF dt[2] > 1 THEN <<dt[1], dt[2] - 1, DaysInMonth(dt[1], dt[2] - 1)>>
    ELSE <<dt[1] - 1, 12, 31>>

RECURSIVE AddDays(_, _)
\* NaiveDate + Duration::days(n)
AddDays(dt, n) ==
    IF n = 0 THEN dt
    ELSE IF n > 0 THEN AddDays(NextDay(dt), n - 1)
    ELSE AddDays(PrevDay(dt), n + 1)

\* Datelike::with_month0: None when the day does not exist in that month.
WithMonth0(dt, m0) ==
    IF m0 \in 0..11 /\ dt[3] <= DaysInMonth(dt[1], m0 + 1)
    THEN <<dt[1], m0 + 1, dt[3]>>
    ELSE NoDate

\* Datelike::with_year: None when the day does not exist in that year.
WithYear(dt, y) ==
    IF dt[3] <= DaysInMonth(y, dt[2]) THEN <<y, dt[2], dt[3]>> ELSE NoDate

\* Number of days from 0001-01-01 (which is day 1, a Monday).
NumDaysFromCe(dt) ==
    LET y == dt[1] - 1
        RECURSIVE Before(_)
        Before(m) == IF m = 1 THEN 0 ELSE Before(m - 1) + DaysInMonth(dt[1], m - 1)
    IN  365 * y + (y \div 4) - (y \div 100) + (y \div 400) + Before(dt[2]) + dt[3]

\* 0 = Monday .. 6 = Sunday
Weekday(dt) == (NumDaysFromCe(dt) - 1) % 7

\* Rust integer division and remainder truncate toward zero.
TruncDiv(a, b) == IF a >= 0 THEN a \div b ELSE -((-a) \div b)

TruncRem(a, b) == a - b * TruncDiv(a, b)

----------------------------------------------------------------------------
(* Values of the prompt's types. *)

\* Option<ErrorMessage>: a message is its text and the date formatted into it.
NoError == [some |-> FALSE, text |-> "", date |-> NoDate]

SomeError(text, dt) == [some |-> TRUE, text |-> text, date |-> dt]

\* Option<&HashMap<NaiveDate, DateInfo>>
NoMarkedDates == [some |-> FALSE, map |-> <<>>]

SomeMarkedDates(map) == [some |-> TRUE, map |-> map]

\* DateSelectPromptAction
NavigationActions ==
    {"GoToPrevWeek", "GoToNextWeek", "GoToPrevDay", "GoToNextDay",
     "GoToPrevYear", "GoToNextYear", "GoToPrevMonth", "GoToNextMonth"}

Actions == NavigationActions \cup {"Delete", "ConfirmDelete", "CancelDelete"}

\* Option<DateOutput> and the other values a call returns.
NoOutput == [date |-> NoDate, to_delete |-> FALSE]

Ret(tag, out, err) == [tag |-> tag, out |-> out, err |-> err]

\* A call that a method makes on a validator or on the backend: the callee,
\* its text argument and its date arguments.
Call(name, text, dates) == [name |-> name, text |-> text, dates |-> dates]

----------------------------------------------------------------------------
(* The validators a caller may configure: each maps the candidate date to  *)
(* Ok(Valid), Ok(Invalid(msg)) or Err(custom error).                       *)

Outcome(tag, msg) == [tag |-> tag, msg |-> msg]

Validate(validator, dt) ==
    CASE validator = "always_valid" -> Outcome("Valid", "")
      [] validator = "rejects_sundays" ->
            IF Weekday(dt) = 6 THEN Outcome("Invalid", "Sundays are not allowed")
            ELSE Outcome("Valid", "")
      [] validator = "rejects_weekends" ->
            IF Weekday(dt) >= 5 THEN Outcome("Invalid", "Weekends are not allowed")
            ELSE Outcome("Valid", "")
      [] validator = "raises_in_february" ->
            IF dt[2] = 2 THEN Outcome("Err", "february is closed")
            ELSE Outcome("Valid", "")

----------------------------------------------------------------------------
(* DateSelectPrompt: the methods, as functions of the prompt's fields.     *)
(* self is [current_date, error, deletion_requested, to_delete]; a method  *)
(* taking &mut self returns the new fields next to its return value.       *)

Step(self, result) == [self |-> self, result |-> result]

marked_dates_contains(dt, marked) ==
    marked.some /\ dt \in DOMAIN marked.map

\* request_deletion without the test of the annotation's deletable flag.
request_deletion_of_any_marked(self, marked) ==
    IF marked_dates_contains(self.current_date, marked)
    THEN Step([self EXCEPT !.deletion_requested = TRUE,
                           !.error = SomeError(
                               "Are you sure you want to delete logs for date: {}? [y/n]",
                               self.current_date)],
              "NeedsRedraw")
    ELSE Step(self, "Clean")

request_deletion(self, marked) ==
    IF marked_dates_contains(self.current_date, marked)
       /\ marked.map[self.current_date].deletable
    THEN Step([self EXCEPT !.deletion_requested = TRUE,
                           !.error = SomeError(
                               "Are you sure you want to delete logs for date: {}? [y/n]",
                               self.current_date)],
              "NeedsRedraw")
    ELSE Step(self, "Clean")

\* update_date without the clamp to max_date.
update_date_without_max(self, cfg, new_date) ==
    IF self.current_date = new_date THEN Step(self, "Clean")
    ELSE LET d1 == IF cfg.min_date # NoDate
                   THEN DateMax(new_date, cfg.min_date) ELSE new_date
         IN  Step([self EXCEPT !.current_date = d1], "NeedsRedraw")

\* update_date refusing a date outside the bounds instead of clamping it.
update_date_rejecting(self, cfg, new_date) ==
    IF self.current_date = new_date THEN Step(self, "Clean")
    ELSE IF \/ cfg.min_date # NoDate /\ DateLt(new_date, cfg.min_date)
            \/ cfg.max_date # NoDate /\ DateLt(cfg.max_date, new_date)
    THEN Step(self, "Clean")
    ELSE Step([self EXCEPT !.current_date = new_date], "NeedsRedraw")

update_date(self, cfg, new_date) ==
    IF self.current_date = new_date THEN Step(self, "Clean")
    ELSE LET d1 == IF cfg.min_date # NoDate
                   THEN DateMax(new_date, cfg.min_date) ELSE new_date
             d2 == IF cfg.max_date # NoDate
                   THEN DateMin(d1, cfg.max_date) ELSE d1
         IN  Step([self EXCEPT !.current_date = d2], "NeedsRedraw")

shift_date(self, cfg, days) ==
    update_date(self, cfg, AddDays(self.current_date, days))

\* shift_months_new_date moving to the last day of a shorter month.
shift_months_new_date_saturating(date, qty) ==
    LET years == TruncDiv(qty, 12)
        months == TruncRem(qty, 12)
        new_year == date[1] + years
        cur_month == date[2] - 1
        m == TruncRem(cur_month + months, 12)
        new_month == IF m < 0 THEN m + 12 ELSE m
        last == DaysInMonth(new_year, new_month + 1)
    IN  <<new_year, new_month + 1, IF date[3] > last THEN last ELSE date[3]>>

\* shift_months_new_date without the year added.
shift_months_new_date_same_year(date, qty) ==
    LET months == TruncRem(qty, 12)
        cur_month == date[2] - 1
        m == TruncRem(cur_month + months, 12)
        new_month == IF m < 0 THEN m + 12 ELSE m
    IN  WithMonth0(date, new_month)

\* The Option<NaiveDate> that shift_months computes before update_date.
shift_months_new_date(date, qty) ==
    LET years == TruncDiv(qty, 12)
        months == TruncRem(qty, 12)
        new_year == date[1] + years
        cur_month == date[2] - 1
        m == TruncRem(cur_month + months, 12)
        new_month == IF m < 0 THEN m + 12 ELSE m
        d == WithMonth0(date, new_month)
    IN  IF d = NoDate THEN NoDate ELSE WithYear(d, new_year)

shift_months(self, cfg, qty) ==
    LET new_date == shift_months_new_date(self.current_date, qty)
    IN  IF new_date # NoDate THEN update_date(self, cfg, new_date)
        ELSE Step(self, "Clean")

cur_answer(self) == self.current_date

\* What the loop over the validators yields, with the validators it invoked.
Verdict(outcome, vs, n) ==
    [tag |-> outcome.tag, msg |-> outcome.msg,
     invoked |-> [k \in 1..n |-> Call(vs[k], "", <<>>)]]

RECURSIVE validate_from_reporting_last(_, _, _)
\* The loop running every validator and yielding the last failure.
validate_from_reporting_last(self, vs, i) ==
    IF i > Len(vs) THEN Verdict(Outcome("Valid", ""), vs, Len(vs))
    ELSE LET r == Validate(vs[i], cur_answer(self))
             rest == validate_from_reporting_last(self, vs, i + 1)
         IN  IF r.tag = "Valid" \/ rest.tag # "Valid" THEN rest
             ELSE Verdict(r, vs, Len(vs))

RECURSIVE validate_from(_, _, _)
validate_from(self, vs, i) ==
    IF i > Len(vs) THEN Verdict(Outcome("Valid", ""), vs, Len(vs))
    ELSE LET r == Validate(vs[i], cur_answer(self))
         IN  IF r.tag = "Valid" THEN validate_from(self, vs, i + 1)
             ELSE Verdict(r, vs, i)

validate_current_answer(self, vs) == validate_from(self, vs, 1)

\* submit returning None on Invalid without storing the message.
submit_dropping_message(self, vs) ==
    LET v == validate_current_answer(self, vs)
    IN  CASE v.tag = "Err" -> Step(self, Ret("CustomError", NoOutput, v.msg))
          [] v.tag = "Valid" ->
                Step(self, Ret("Answer",
                               [date |-> cur_answer(self), to_delete |-> self.to_delete],
                               ""))
          [] v.tag = "Invalid" -> Step(self, Ret("NoAnswer", NoOutput, ""))

\* submit turning a validator's custom error into an inline message.
submit_recovering_custom_error(self, vs) ==
    LET v == validate_current_answer(self, vs)
    IN  CASE v.tag = "Valid" ->
                Step(self, Ret("Answer",
                               [date |-> cur_answer(self), to_delete |-> self.to_delete],
                               ""))
          [] OTHER ->
                Step([self EXCEPT !.error = SomeError(v.msg, NoDate)],
                     Ret("NoAnswer", NoOutput, ""))

\* submit taking the delete intent out of the prompt when it answers.
submit_consuming_intent(self, vs) ==
    LET v == validate_current_answer(self, vs)
    IN  CASE v.tag = "Err" -> Step(self, Ret("CustomError", NoOutput, v.msg))
          [] v.tag = "Valid" ->
                Step([self EXCEPT !.to_delete = FALSE],
                     Ret("Answer",
                         [date |-> cur_answer(self), to_delete |-> self.to_delete],
                         ""))
          [] v.tag = "Invalid" ->
                Step([self EXCEPT !.error = SomeError(v.msg, NoDate)],
                     Ret("NoAnswer", NoOutput, ""))

\* submit: Err(Custom), Ok(Some(DateOutput)) or Ok(None)
submit(self, vs) ==
    LET v == validate_current_answer(self, vs)
    IN  CASE v.tag = "Err" -> Step(self, Ret("CustomError", NoOutput, v.msg))
          [] v.tag = "Valid" ->
                Step(self, Ret("Answer",
                               [date |-> cur_answer(self), to_delete |-> self.to_delete],
                               ""))
          [] v.tag = "Invalid" ->
                Step([self EXCEPT !.error = SomeError(v.msg, NoDate)],
                     Ret("NoAnswer", NoOutput, ""))

\* The match of handle, after the confirmation block.
handle_match(self, cfg, marked, action) ==
    CASE action = "GoToPrevWeek" -> shift_date(self, cfg, -7)
      [] action = "GoToNextWeek" -> shift_date(self, cfg, 7)
      [] action = "GoToPrevDay" -> shift_date(self, cfg, -1)
      [] action = "GoToNextDay" -> shift_date(self, cfg, 1)
      [] action = "GoToPrevYear" -> shift_months(self, cfg, -12)
      [] action = "GoToNextYear" -> shift_months(self, cfg, 12)
      [] action = "GoToPrevMonth" -> shift_months(self, cfg, -1)
      [] action = "GoToNextMonth" -> shift_months(self, cfg, 1)
      [] action = "Delete" -> request_deletion(self, marked)
      [] OTHER -> Step(self, "Clean")

\* handle ignoring every action but the two answers while the request is pending.
handle_ignoring_while_pending(self, cfg, marked, action) ==
    IF self.deletion_requested
    THEN IF action = "ConfirmDelete"
         THEN Step([self EXCEPT !.error = NoError, !.deletion_requested = FALSE,
                                !.to_delete = TRUE], "Submit")
         ELSE IF action = "CancelDelete"
         THEN Step([self EXCEPT !.error = NoError, !.deletion_requested = FALSE],
                   "NeedsRedraw")
         ELSE Step(self, "Clean")
    ELSE handle_match(self, cfg, marked, action)

\* handle without the assignment to to_delete.
handle_without_delete_intent(self, cfg, marked, action) ==
    IF self.deletion_requested
    THEN LET s1 == [self EXCEPT !.error = NoError, !.deletion_requested = FALSE]
         IN  IF action = "ConfirmDelete"
             THEN Step(s1, "Submit")
             ELSE IF action = "CancelDelete"
             THEN Step(s1, "NeedsRedraw")
             ELSE handle_match(s1, cfg, marked, action)
    ELSE handle_match(self, cfg, marked, action)

\* handle forgetting the request only on the two answers.
handle_keeping_request(self, cfg, marked, action) ==
    IF self.deletion_requested
    THEN LET s1 == [self EXCEPT !.error = NoError, !.deletion_requested = FALSE]
         IN  IF action = "ConfirmDelete"
             THEN Step([s1 EXCEPT !.to_delete = TRUE], "Submit")
             ELSE IF action = "CancelDelete"
             THEN Step(s1, "NeedsRedraw")
             ELSE handle_match(self, cfg, marked, action)
    ELSE handle_match(self, cfg, marked, action)

\* handle looking at the action before the pending flag.
handle_confirming_without_request(self, cfg, marked, action) ==
    LET s1 == [self EXCEPT !.error = NoError, !.deletion_requested = FALSE]
    IN  IF action = "ConfirmDelete"
        THEN Step([s1 EXCEPT !.to_delete = TRUE], "Submit")
        ELSE IF action = "CancelDelete"
        THEN Step(s1, "NeedsRedraw")
        ELSE IF self.deletion_requested
        THEN handle_match(s1, cfg, marked, action)
        ELSE handle_match(self, cfg, marked, action)

handle(self, cfg, marked, action) ==
    IF self.deletion_requested
    THEN LET s1 == [self EXCEPT !.error = NoError, !.deletion_requested = FALSE]
         IN  IF action = "ConfirmDelete"
             THEN Step([s1 EXCEPT !.to_delete = TRUE], "Submit")
             ELSE IF action = "CancelDelete"
             THEN Step(s1, "NeedsRedraw")
             ELSE handle_match(s1, cfg, marked, action)
    ELSE handle_match(self, cfg, marked, action)

\* new without the test of max_date.
new_result_without_max_check(so) ==
    IF so.min_date # NoDate /\ DateLt(so.starting_date, so.min_date)
    THEN "Min date can not be greater than starting date"
    ELSE "Ok"

\* The backend calls of render, in the order in which it makes them.
render_calls(self, cfg, marked, message, help_message) ==
    (IF self.error.some
     THEN <<Call("render_error_message", self.error.text, <<self.error.date>>)>>
     ELSE <<>>)
    \o <<Call("render_calendar_prompt", message, <<>>)>>
    \o <<Call("render_calendar", "",
              <<self.current_date, cfg.min_date, cfg.max_date>>)>>
    \o (IF help_message.some
        THEN <<Call("render_help_message", help_message.text, <<>>)>>
        ELSE <<>>)
    \o (IF marked.some /\ self.current_date \in DOMAIN marked.map
        THEN <<Call("render_selection_details",
                    marked.map[self.current_date].details, <<>>)>>
        ELSE <<>>)

\* render showing the error message after the calendar.
render_error_last(self, cfg, marked, message, help_message, fail_at) ==
    LET all == render_calls(self, cfg, marked, message, help_message)
        moved == IF self.error.some THEN Tail(all) \o <<Head(all)>> ELSE all
    IN  IF fail_at \in 1..Len(moved)
        THEN [made |-> SubSeq(moved, 1, fail_at), result |-> "IoError"]
        ELSE [made |-> moved, result |-> "Ok"]

\* render against a backend whose fail_at-th call fails (0: none does): each
\* call is followed by `?`, so the failing call is the last one made.
render(self, cfg, marked, message, help_message, fail_at) ==
    LET all == render_calls(self, cfg, marked, message, help_message)
    IN  IF fail_at \in 1..Len(all)
        THEN [made |-> SubSeq(all, 1, fail_at), result |-> "IoError"]
        ELSE [made |-> all, result |-> "Ok"]

\* DateSelectPrompt::new: "Ok" or the InvalidConfiguration message.
new_result(so) ==
    IF so.min_date # NoDate /\ DateLt(so.starting_date, so.min_date)
    THEN "Min date can not be greater than starting date"
    ELSE IF so.max_date # NoDate /\ DateLt(so.max_date, so.starting_date)
    THEN "Max date can not be smaller than starting date"
    ELSE "Ok"

----------------------------------------------------------------------------
(* The sessions of the model: the DateSelect options handed to new.        *)

StartingDates == {<<2023, 6, 15>>, <<2024, 2, 29>>}

MinDates == {NoDate, <<2023, 1, 1>>, <<2023, 7, 1>>}

MaxDates == {NoDate, <<2023, 3, 31>>, <<2023, 12, 31>>}

MarkedDateMaps ==
    {NoMarkedDates,
     SomeMarkedDates(
        [dt \in {<<2023, 5, 31>>, <<2023, 6, 15>>, <<2023, 6, 16>>, <<2023, 6, 18>>} |->
            [deletable |-> dt # <<2023, 6, 16>>, details |-> "log"]])}

ValidatorChains ==
    {<<>>,
     <<"always_valid", "rejects_sundays", "raises_in_february", "rejects_weekends">>,
     <<"rejects_weekends", "rejects_sundays">>}

\* Option<&str>
NoHelp == [some |-> FALSE, text |-> ""]

HelpMessages == {NoHelp, [some |-> TRUE, text |-> "arrows to move, enter to select"]}

\* Marked dates and validators are configured in the sessions with both bounds,
\* the two-validator chain in those without marked dates.
AllDateSelects ==
    {s \in [message : {"Select a date"}, help_message : HelpMessages,
            starting_date : StartingDates, min_date : MinDates, max_date : MaxDates,
            marked_dates : MarkedDateMaps, validators : ValidatorChains] :
        /\ (s.marked_dates.some \/ s.validators # <<>>)
             => (s.min_date = <<2023, 1, 1>> /\ s.max_date # NoDate)
        /\ Len(s.validators) = 2 => ~s.marked_dates.some}

\* The sessions in which handle and submit are explored: no help message,
\* which only render reads.
DateSelects == {s \in AllDateSelects : ~s.help_message.some}

\* The sessions in which render is explored as well: three months around the
\* marked dates, with and without a help message and marked dates.
RenderDateSelects ==
    [message : {"Select a date"}, help_message : HelpMessages,
     starting_date : {<<2023, 6, 15>>},
     min_date : {<<2023, 5, 1>>}, max_date : {<<2023, 7, 31>>},
     marked_dates : MarkedDateMaps,
     validators : {<<"always_valid", "rejects_sundays", "rejects_weekends">>}]

----------------------------------------------------------------------------
(* The default filter of the prompt configuration.  A string is the        *)
(* sequence of its characters; the characters are named.  "A" is the       *)
(* capital of "a", "SIGMA" the capital of "sigma" and, at the end of a      *)
(* word, of "final_sigma", "I_DOT" the capital I with a dot above, whose    *)
(* lowercase is the two characters "i", "dot_above".  The apostrophe is     *)
(* neither upper nor lower case and is ignored when looking for the end of  *)
(* a word.                                                                  *)

MaxFilterLen == 2

MaxValueLen == 3

MaxIndex == 1

Chars == {"a", "A", "SIGMA", "I_DOT", "'"}

Strs(n) == UNION {[1..k -> Chars] : k \in 0..n}

Cased == {"a", "A", "SIGMA", "sigma", "final_sigma", "I_DOT", "i"}

CaseIgnorable == {"'", "dot_above"}

Reverse(s) == [k \in 1..Len(s) |-> s[Len(s) + 1 - k]]

\* the first character that is not case-ignorable is cased
RECURSIVE case_ignorable_then_cased(_)
case_ignorable_then_cased(s) ==
    IF s = <<>> THEN FALSE
    ELSE IF Head(s) \in CaseIgnorable THEN case_ignorable_then_cased(Tail(s))
    ELSE Head(s) \in Cased

\* the lowercase of the capital sigma at position i
map_uppercase_sigma(s, i) ==
    LET is_word_final ==
            /\ case_ignorable_then_cased(Reverse(SubSeq(s, 1, i - 1)))
            /\ ~case_ignorable_then_cased(SubSeq(s, i + 1, Len(s)))
    IN  IF is_word_final THEN <<"final_sigma">> ELSE <<"sigma">>

\* char::to_lowercase
char_to_lower(c) ==
    CASE c = "A" -> <<"a">>
      [] c = "I_DOT" -> <<"i", "dot_above">>
      [] OTHER -> <<c>>

RECURSIVE to_lowercase_from(_, _)
to_lowercase_from(s, i) ==
    IF i > Len(s) THEN <<>>
    ELSE (IF s[i] = "SIGMA" THEN map_uppercase_sigma(s, i) ELSE char_to_lower(s[i]))
         \o to_lowercase_from(s, i + 1)

\* str::to_lowercase
to_lowercase(s) == to_lowercase_from(s, 1)

\* str::starts_with, on the rest of the string from position i
RECURSIVE starts_with_at(_, _, _)
starts_with_at(s, pat, i) ==
    IF pat = <<>> THEN TRUE
    ELSE IF i > Len(s) THEN FALSE
    ELSE s[i] = Head(pat) /\ starts_with_at(s, Tail(pat), i + 1)

\* str::contains: the pattern is searched from each position in turn
RECURSIVE contains_from(_, _, _)
contains_from(s, pat, i) ==
    IF starts_with_at(s, pat, i) THEN TRUE
    ELSE IF i > Len(s) THEN FALSE
    ELSE contains_from(s, pat, i + 1)

contains(s, pat) == contains_from(s, pat, 1)

DEFAULT_FILTER_matching_case(filter, value, index) ==
    contains(to_lowercase(value), filter)

DEFAULT_FILTER(filter, value, index) ==
    LET lowered == to_lowercase(filter)
    IN  contains(to_lowercase(value), lowered)

\* no call of the filter
NoFilterCall ==
    [called |-> FALSE, filter |-> <<>>, value |-> <<>>, index |-> 0, result |-> FALSE]

\* the calls of the filter that are about to be made: a query, a label and
\* the label's index
FilterCalls ==
    [called : {FALSE}, filter : Strs(MaxFilterLen), value : Strs(MaxValueLen),
     index : 0..MaxIndex, result : {FALSE}]

\* A DateSelect with the defaults: no bounds, no marked dates, no validators.
PlainDateSelect ==
    [message |-> "Select a date", help_message |-> NoHelp,
     starting_date |-> <<2023, 6, 15>>, min_date |-> NoDate, max_date |-> NoDate,
     marked_dates |-> NoMarkedDates, validators |-> <<>>]

----------------------------------------------------------------------------
VARIABLES
    so,                  \* the DateSelect given to new
    created,             \* what new returned: "Ok" or the configuration error
    message,             \* the prompt's fields
    help_message,
    current_date,
    config,
    validators,
    marked_dates,
    error,
    deletion_requested,
    to_delete,
    last_call,           \* the last call: "new", "submit" or the action handled
    ret,                 \* what the last call returned
    pre,                 \* current_date, error, deletion_requested, to_delete before it
    calls,               \* the validators or backend methods the last call invoked
    confirmed_on,        \* the cursor date of the last ConfirmDelete that was accepted
    filtered             \* the last call of the filter and its result

vars ==
    <<so, created, message, help_message, current_date, config, validators, marked_dates, error,
      deletion_requested, to_delete, last_call, ret, pre, calls, confirmed_on,
      filtered>>

Self ==
    [current_date |-> current_date, error |-> error,
     deletion_requested |-> deletion_requested, to_delete |-> to_delete]

\* DateSelectPrompt::new on one of the given DateSelects
InitWith(selects, filter_calls) ==
    /\ so \in selects
    /\ created = new_result(so)
    /\ message = so.message
    /\ help_message = so.help_message
    /\ current_date = so.starting_date
    /\ config = [min_date |-> so.min_date, max_date |-> so.max_date]
    /\ validators = so.validators
    /\ marked_dates = so.marked_dates
    /\ error = NoError
    /\ deletion_requested = FALSE
    /\ to_delete = FALSE
    /\ last_call = "new"
    /\ ret = Ret(created, NoOutput, "")
    /\ pre = Self
    /\ calls = <<>>
    /\ confirmed_on = NoDate
    /\ filtered \in filter_calls

Init == InitWith(DateSelects, {NoFilterCall})

\* The fields after a call, and the record of the call.
Becomes(r, call, returned, made) ==
    /\ current_date' = r.self.current_date
    /\ error' = r.self.error
    /\ deletion_requested' = r.self.deletion_requested
    /\ to_delete' = r.self.to_delete
    /\ last_call' = call
    /\ ret' = returned
    /\ pre' = Self
    /\ calls' = made
    /\ confirmed_on' = (IF call = "ConfirmDelete" /\ returned.tag = "Submit"
                        THEN current_date ELSE confirmed_on)
    /\ UNCHANGED <<so, created, message, help_message, config, validators,
                   marked_dates, filtered>>

\* Prompt::handle(action); the calendar of the model ends with Years.
Handle(action) ==
    /\ created = "Ok"
    /\ LET r == handle(Self, config, marked_dates, action)
       IN  /\ r.self.current_date[1] \in Years
           /\ Becomes(r, action, Ret(r.result, NoOutput, ""), <<>>)

\* Prompt::submit()
Submit ==
    /\ created = "Ok"
    /\ LET r == submit(Self, validators)
       IN  Becomes(r, "submit", r.result,
                   validate_current_answer(Self, validators).invoked)

Next ==
    \/ \E action \in Actions : Handle(action)
    \/ Submit

Spec == Init /\ [][Next]_vars

\* Prompt::render(backend): the backend may fail at any of the calls.
Render ==
    /\ created = "Ok"
    /\ \E fail_at \in 0..Len(render_calls(Self, config, marked_dates, message,
                                          help_message)) :
        LET r == render(Self, config, marked_dates, message, help_message, fail_at)
        IN  Becomes(Step(Self, r.result), "render", Ret(r.result, NoOutput, ""),
                    r.made)

RenderInit == InitWith(RenderDateSelects, {NoFilterCall})

RenderNext ==
    \/ Next
    \/ Render

RenderSpec == RenderInit /\ [][RenderNext]_vars

\* The call of the configured filter on its query, label and index; the
\* filter reads nothing of the prompt.
ApplyFilter ==
    /\ ~filtered.called
    /\ filtered' = [filtered EXCEPT
                      !.called = TRUE,
                      !.result = DEFAULT_FILTER(filtered.filter, filtered.value,
                                                filtered.index)]
    /\ UNCHANGED <<so, created, message, help_message, current_date, config,
                   validators, marked_dates, error, deletion_requested,
                   to_delete, last_call, ret, pre, calls, confirmed_on>>

FilterInit == InitWith({PlainDateSelect}, FilterCalls)

FilterNext == ApplyFilter

FilterSpec == FilterInit /\ [][FilterNext]_vars

----------------------------------------------------------------------------
(* The driver loop calls submit when handle returns Submit and ends the    *)
(* session when submit returns an answer or fails.                         *)

SessionOver == ret.tag \in {"Answer", "CustomError"}

DriverHandle(action) ==
    /\ ~SessionOver
    /\ ret.tag # "Submit"
    /\ Handle(action)

DriverSubmit ==
    /\ ~SessionOver
    /\ Submit

DriverNext ==
    \/ \E action \in Actions : DriverHandle(action)
    \/ DriverSubmit

DriverSpec == Init /\ [][DriverNext]_vars

----------------------------------------------------------------------------
(* Vocabulary of the properties. *)

\* The cursor date dt is in the marked-date index with a deletable annotation.
Deletable(dt) ==
    /\ marked_dates.some
    /\ dt \in DOMAIN marked_dates.map
    /\ marked_dates.map[dt].deletable

\* dt lies within the configured bounds.
InBounds(dt) ==
    /\ config.min_date # NoDate => ~DateLt(dt, config.min_date)
    /\ config.max_date # NoDate => ~DateLt(config.max_date, dt)

\* dt forced into [min_date, max_date].
ClampInto(dt) ==
    IF config.max_date # NoDate /\ DateLt(config.max_date, dt) THEN config.max_date
    ELSE IF config.min_date # NoDate /\ DateLt(dt, config.min_date) THEN config.min_date
    ELSE dt

\* The date a navigation action computes from dt (NoDate when there is none).
Candidate(dt, action) ==
    CASE action = "GoToPrevWeek" -> AddDays(dt, -7)
      [] action = "GoToNextWeek" -> AddDays(dt, 7)
      [] action = "GoToPrevDay" -> AddDays(dt, -1)
      [] action = "GoToNextDay" -> AddDays(dt, 1)
      [] action = "GoToPrevYear" -> shift_months_new_date(dt, -12)
      [] action = "GoToNextYear" -> shift_months_new_date(dt, 12)
      [] action = "GoToPrevMonth" -> shift_months_new_date(dt, -1)
      [] action = "GoToNextMonth" -> shift_months_new_date(dt, 1)

\* The last call was handle(action) for some action.
Handled == last_call \in Actions

\* The last call was handle of an action other than the two answers, made
\* while the confirmation was pending.
OtherWhilePending ==
    /\ Handled
    /\ last_call \notin {"ConfirmDelete", "CancelDelete"}
    /\ pre.deletion_requested

ConfirmText == "Are you sure you want to delete logs for date: {}? [y/n]"

----------------------------------------------------------------------------
\* C1: in a session that new accepted, after any calls of handle and submit
\* the cursor date is not before min_date and not after max_date, each bound
\* being checked when it is configured.
C1_CursorWithinBounds ==
    created = "Ok" =>
        /\ config.min_date # NoDate => ~DateLt(current_date, config.min_date)
        /\ config.max_date # NoDate => ~DateLt(config.max_date, current_date)

\* A navigation action computed a date before min_date and the cursor was
\* set to min_date.
C1_Witness ==
    /\ last_call \in NavigationActions
    /\ config.min_date # NoDate
    /\ Candidate(pre.current_date, last_call) # NoDate
    /\ DateLt(Candidate(pre.current_date, last_call), config.min_date)
    /\ current_date = config.min_date
    /\ ret.tag = "NeedsRedraw"

\* C2 as claimed: while the confirmation is pending, handle of any action
\* other than ConfirmDelete and CancelDelete changes neither the cursor date,
\* the pending flag, the error message nor the delete-intent flag.
C2_OtherActionsIgnored ==
    OtherWhilePending => Self = pre

\* C2 as amended: while the confirmation is pending, handle of any other
\* action forgets the request (pending flag and message cleared) and then
\* handles the action as in normal navigation: a navigation action moves the
\* cursor to its clamped target (or leaves it when the target date does not
\* exist) with no message and nothing pending, Delete opens the confirmation
\* for the same date again; the delete-intent flag is unchanged.
C2_OtherActionsForgetRequest ==
    OtherWhilePending =>
        /\ to_delete = pre.to_delete
        /\ last_call \in NavigationActions =>
            LET c == Candidate(pre.current_date, last_call)
            IN  /\ ~deletion_requested
                /\ error = NoError
                /\ current_date = (IF c = NoDate THEN pre.current_date ELSE ClampInto(c))
                /\ ret.tag = (IF c = NoDate THEN "Clean" ELSE "NeedsRedraw")
        /\ last_call = "Delete" =>
                /\ deletion_requested
                /\ error = SomeError(ConfirmText, pre.current_date)
                /\ current_date = pre.current_date
                /\ ret.tag = "NeedsRedraw"

\* A navigation action handled while the confirmation was pending moved the
\* cursor and dropped the request.
C2_Witness ==
    /\ OtherWhilePending
    /\ last_call = "GoToNextDay"
    /\ current_date = NextDay(pre.current_date)
    /\ ~deletion_requested
    /\ error = NoError

\* C3 as claimed: with nothing pending and no clamping, GoToNextMonth from
\* day D of December of year Y moves the cursor to D January of Y+1, and
\* GoToPrevMonth from day D of January of Y moves it to D December of Y-1.
C3_MonthStepCrossesYear ==
    /\ (/\ last_call = "GoToNextMonth"
        /\ ~pre.deletion_requested
        /\ pre.current_date[2] = 12
        /\ InBounds(<<pre.current_date[1] + 1, 1, pre.current_date[3]>>))
       => current_date = <<pre.current_date[1] + 1, 1, pre.current_date[3]>>
    /\ (/\ last_call = "GoToPrevMonth"
        /\ ~pre.deletion_requested
        /\ pre.current_date[2] = 1
        /\ InBounds(<<pre.current_date[1] - 1, 12, pre.current_date[3]>>))
       => current_date = <<pre.current_date[1] - 1, 12, pre.current_date[3]>>

\* C4: when the confirmation is pending for cursor date d, handle(ConfirmDelete)
\* returns Submit, clears the pending flag and the error message, sets the
\* delete-intent flag and leaves the cursor at d; and a submit that follows
\* and validates as Valid produces exactly (date = d, to_delete = true).
C4_ConfirmDeleteSubmitsDate ==
    /\ [](last_call = "ConfirmDelete" /\ pre.deletion_requested
            => /\ ret.tag = "Submit"
               /\ ~deletion_requested
               /\ error = NoError
               /\ to_delete
               /\ current_date = pre.current_date)
    /\ [][(/\ last_call = "ConfirmDelete"
           /\ pre.deletion_requested
           /\ last_call' = "submit"
           /\ ret'.tag = "Answer")
          => ret'.out = [date |-> pre.current_date, to_delete |-> TRUE]]_vars

\* ConfirmDelete was handled while pending on a date that the validators accept.
C4_Witness ==
    /\ last_call = "ConfirmDelete"
    /\ pre.deletion_requested
    /\ ret.tag = "Submit"
    /\ validators # <<>>
    /\ validate_current_answer(Self, validators).tag = "Valid"

\* C5 as claimed: when the confirmation is pending, handle(CancelDelete)
\* returns NeedsRedraw and afterwards the pending flag is false, the error
\* message is empty, the delete-intent flag is false and the cursor date is
\* unchanged.
C5_CancelLeavesNoDeleteIntent ==
    (last_call = "CancelDelete" /\ pre.deletion_requested) =>
        /\ ret.tag = "NeedsRedraw"
        /\ ~deletion_requested
        /\ error = NoError
        /\ ~to_delete
        /\ current_date = pre.current_date

\* C6: handle(Delete) when the cursor date is absent from the marked-date
\* index (or no index is configured), or present but not deletable, returns
\* Clean and changes neither the cursor, the pending flag, the error message
\* nor the delete-intent flag; no confirmation message is set.
C6_DeleteOfUndeletableIsNoOp ==
    (last_call = "Delete" /\ ~Deletable(pre.current_date)) =>
        /\ ret.tag = "Clean"
        /\ Self = pre
        /\ error.text # ConfirmText

\* Delete was handled on a date that is in the index but not deletable.
C6_Witness ==
    /\ last_call = "Delete"
    /\ marked_dates.some
    /\ pre.current_date \in DOMAIN marked_dates.map
    /\ ~marked_dates.map[pre.current_date].deletable
    /\ ret.tag = "Clean"

\* C7: whenever the deletion-confirmation flag is set, the cursor date is in
\* the marked-date index and its annotation is deletable.
C7_PendingOnlyOnDeletableDate ==
    deletion_requested => Deletable(current_date)

\* The confirmation was opened on 2023-06-18, a deletable date that only
\* navigation reaches.
C7_Witness ==
    /\ deletion_requested
    /\ last_call = "Delete"
    /\ current_date = <<2023, 6, 18>>
    /\ Deletable(current_date)

\* C8: when a navigation action, with nothing pending, computes a date c
\* different from the cursor, the new cursor is c clamped into
\* [min_date, max_date] and the result is NeedsRedraw; from 2023-06-15 with
\* bounds 2023-01-01..2023-12-31, GoToNextYear ends at 2023-12-31.
C8_ClampAfterArithmetic ==
    /\ (/\ last_call \in NavigationActions
        /\ ~pre.deletion_requested
        /\ Candidate(pre.current_date, last_call) # NoDate
        /\ Candidate(pre.current_date, last_call) # pre.current_date)
       => /\ current_date = ClampInto(Candidate(pre.current_date, last_call))
          /\ ret.tag = "NeedsRedraw"
    /\ (/\ last_call = "GoToNextYear"
        /\ ~pre.deletion_requested
        /\ pre.current_date = <<2023, 6, 15>>
        /\ config = [min_date |-> <<2023, 1, 1>>, max_date |-> <<2023, 12, 31>>])
       => current_date = <<2023, 12, 31>>

\* GoToNextYear from 2023-06-15 computed 2024-06-15, beyond max_date.
C8_Witness ==
    /\ last_call = "GoToNextYear"
    /\ ~pre.deletion_requested
    /\ pre.current_date = <<2023, 6, 15>>
    /\ config = [min_date |-> <<2023, 1, 1>>, max_date |-> <<2023, 12, 31>>]
    /\ current_date = <<2023, 12, 31>>
    /\ ret.tag = "NeedsRedraw"

\* The year and month that lie qty months after the month of dt.
TargetMonth(dt, qty) ==
    LET n == dt[1] * 12 + (dt[2] - 1) + qty
    IN  <<n \div 12, (n % 12) + 1>>

\* The month or year action stepped to a month without the cursor's day.
DayMissingInTarget ==
    \E qty \in {-12, -1, 1, 12} :
        /\ last_call = (CASE qty = -12 -> "GoToPrevYear"
                          [] qty = -1 -> "GoToPrevMonth"
                          [] qty = 1 -> "GoToNextMonth"
                          [] qty = 12 -> "GoToNextYear")
        /\ LET t == TargetMonth(pre.current_date, qty)
           IN  pre.current_date[3] > DaysInMonth(t[1], t[2])

\* C9: a month or year action whose target month has no day equal to the
\* cursor's day of month returns Clean and leaves the cursor date as it was.
C9_MissingDayIsNoOp ==
    DayMissingInTarget =>
        /\ ret.tag = "Clean"
        /\ current_date = pre.current_date

\* GoToNextMonth was handled on the 31st of a month followed by a shorter one.
C9_Witness ==
    /\ DayMissingInTarget
    /\ last_call = "GoToNextMonth"
    /\ pre.current_date[3] = 31
    /\ ret.tag = "Clean"

\* The date one year after dt, as a triple (it may not exist).
OneYearLater(dt) == <<dt[1] + 1, dt[2], dt[3]>>

\* C10 as claimed: for any cursor date d, when no clamping occurs,
\* GoToNextYear moves the cursor to the same month and day one year later.
C10_NextYearSameDay ==
    (last_call = "GoToNextYear" /\ InBounds(OneYearLater(pre.current_date)))
        => current_date = OneYearLater(pre.current_date)

\* C10 as amended: for any cursor date d other than 29 February, when no
\* clamping occurs, GoToNextYear moves the cursor to the same month and day
\* one year later, and from 29 February it returns Clean and leaves the
\* cursor; a following GoToPrevYear returns the cursor to d.
C10_YearRoundTrip ==
    /\ []((last_call = "GoToNextYear" /\ InBounds(OneYearLater(pre.current_date)))
            => IF pre.current_date[2] = 2 /\ pre.current_date[3] = 29
               THEN current_date = pre.current_date /\ ret.tag = "Clean"
               ELSE current_date = OneYearLater(pre.current_date))
    /\ [][(/\ last_call = "GoToNextYear"
           /\ InBounds(OneYearLater(pre.current_date))
           /\ last_call' = "GoToPrevYear")
          => current_date' = pre.current_date]_vars

\* GoToPrevYear brought the cursor back from 2024-06-15 to 2023-06-15.
C10_Witness ==
    /\ last_call = "GoToPrevYear"
    /\ pre.current_date = <<2024, 6, 15>>
    /\ current_date = <<2023, 6, 15>>
    /\ ret.tag = "NeedsRedraw"

----------------------------------------------------------------------------
(* Vocabulary of the properties about submit. *)

\* The positions of the configured validators that do not accept dt.
NotAccepting(dt) ==
    {k \in 1..Len(validators) : Validate(validators[k], dt).tag # "Valid"}

\* The position of the first validator that does not accept dt (0: none).
FirstNotAccepting(dt) ==
    IF NotAccepting(dt) = {} THEN 0
    ELSE CHOOSE k \in NotAccepting(dt) : \A j \in NotAccepting(dt) : k <= j

\* What that validator returned.
FirstFailure(dt) == Validate(validators[FirstNotAccepting(dt)], dt)

\* The last call was submit and the first validator not to accept returned tag.
SubmittedWith(tag) ==
    /\ last_call = "submit"
    /\ FirstNotAccepting(pre.current_date) # 0
    /\ FirstFailure(pre.current_date).tag = tag

\* C11: submit validates the cursor date. On Valid it returns an answer with
\* the cursor date and the delete-intent flag; on Invalid(msg) it returns no
\* answer and stores msg as the error; in both cases the cursor date, the
\* pending flag and the delete-intent flag are unchanged.
C11_SubmitValidatesCursor ==
    last_call = "submit" =>
        /\ FirstNotAccepting(pre.current_date) = 0 =>
            /\ ret.tag = "Answer"
            /\ ret.out = [date |-> pre.current_date, to_delete |-> pre.to_delete]
        /\ SubmittedWith("Invalid") =>
            /\ ret.tag = "NoAnswer"
            /\ ret.out = NoOutput
            /\ error.some
            /\ error.text = FirstFailure(pre.current_date).msg
        /\ current_date = pre.current_date
        /\ deletion_requested = pre.deletion_requested
        /\ to_delete = pre.to_delete

\* submit was refused while a confirmation was pending: the message replaced
\* the confirmation text and the flags stayed.
C11_Witness ==
    /\ SubmittedWith("Invalid")
    /\ ret.tag = "NoAnswer"
    /\ pre.deletion_requested
    /\ pre.error.text = ConfirmText
    /\ error.text = "Sundays are not allowed"

\* C12: the validators run in the configured order up to the first that
\* returns Invalid; the result is Invalid with that validator's message, no
\* later validator is invoked, and the result is Valid only if every
\* validator returned Valid (an empty chain is Valid).
C12_FirstInvalidStopsChain ==
    last_call = "submit" =>
        LET n == FirstNotAccepting(pre.current_date)
            ran == IF n = 0 THEN Len(validators) ELSE n
        IN  /\ Len(calls) = ran
            /\ \A k \in 1..ran : calls[k].name = validators[k]
            /\ ret.tag = "Answer" <=> n = 0
            /\ SubmittedWith("Invalid") =>
                /\ ret.tag = "NoAnswer"
                /\ error.text = Validate(validators[n], pre.current_date).msg
            /\ (validators = <<>>) => ret.tag = "Answer"

\* On a Sunday the chain [always valid, rejects Sundays, ...] stopped at its
\* second validator, ahead of a later one that rejects Sundays too.
C12_Witness ==
    /\ last_call = "submit"
    /\ Len(validators) = 4
    /\ Weekday(pre.current_date) = 6
    /\ Len(calls) = 2
    /\ ret.tag = "NoAnswer"
    /\ error.text = "Sundays are not allowed"

\* C13: when a validator raises a custom error before any has returned
\* Invalid, submit fails with that error: no answer, no later validator is
\* run, and the stored error message and the other fields are not modified.
C13_CustomErrorFailsSubmit ==
    SubmittedWith("Err") =>
        /\ ret.tag = "CustomError"
        /\ ret.err = FirstFailure(pre.current_date).msg
        /\ ret.out = NoOutput
        /\ Len(calls) = FirstNotAccepting(pre.current_date)
        /\ Self = pre

\* A validator raised on a Saturday in February, ahead of the validator that
\* rejects weekends, while a message of an earlier submit was stored.
C13_Witness ==
    /\ SubmittedWith("Err")
    /\ ret.tag = "CustomError"
    /\ Weekday(pre.current_date) = 5
    /\ pre.error.some
    /\ error = pre.error

\* The date dt is configured and the starting date lies on the wrong side of it.
StartBefore(dt) == dt # NoDate /\ DateLt(so.starting_date, dt)

StartAfter(dt) == dt # NoDate /\ DateLt(dt, so.starting_date)

\* C14: new fails with a configuration error exactly when min_date is
\* configured and later than starting_date or max_date is configured and
\* earlier than it, so whenever min_date > max_date; no call follows a
\* failure; otherwise the prompt starts with cursor = starting_date, no error
\* message, nothing pending and no delete intent.
C14_NewRejectsStartOutsideBounds ==
    /\ created # "Ok" <=> (StartBefore(so.min_date) \/ StartAfter(so.max_date))
    /\ (so.min_date # NoDate /\ so.max_date # NoDate
            /\ DateLt(so.max_date, so.min_date)) => created # "Ok"
    /\ created # "Ok" => last_call = "new"
    /\ (last_call = "new" /\ created = "Ok") =>
        /\ current_date = so.starting_date
        /\ error = NoError
        /\ ~deletion_requested
        /\ ~to_delete

\* new refused a configuration whose max_date alone excludes the starting date.
C14_Witness ==
    /\ last_call = "new"
    /\ created = "Max date can not be smaller than starting date"
    /\ ~StartBefore(so.min_date)
    /\ StartAfter(so.max_date)

\* C15: a submit that validates as Valid modifies no prompt state, and a
\* second submit right after it produces the same answer.
C15_SubmitTwiceSameAnswer ==
    /\ []((last_call = "submit" /\ ret.tag = "Answer") => Self = pre)
    /\ [][(last_call = "submit" /\ ret.tag = "Answer" /\ last_call' = "submit")
          => ret' = ret]_vars

\* An answer with a delete intent was produced and submit would produce it again.
C15_Witness ==
    /\ last_call = "submit"
    /\ ret.tag = "Answer"
    /\ ret.out.to_delete
    /\ submit(Self, validators).result = ret

\* C17 as claimed: an answer with to_delete = true is produced only for a date
\* that is in the marked-date index with a deletable annotation and on which
\* the last accepted ConfirmDelete happened.
C17_DeleteAnswerIsConfirmedDate ==
    (last_call = "submit" /\ ret.tag = "Answer" /\ ret.out.to_delete) =>
        /\ Deletable(ret.out.date)
        /\ confirmed_on = ret.out.date

\* C18 as claimed: whenever handle returns Clean, the cursor date and the
\* error message are the same before and after the call.
C18_CleanChangesNothingShown ==
    (Handled /\ ret.tag = "Clean") =>
        /\ current_date = pre.current_date
        /\ error = pre.error

\* C20: handle returns Submit, and sets to_delete, only for ConfirmDelete with
\* the confirmation pending; ConfirmDelete and CancelDelete with nothing
\* pending return Clean and change no state; and no call of handle or submit
\* resets to_delete once it is true.
C20_DeleteIntentOnlyByConfirmation ==
    /\ (Handled /\ (ret.tag = "Submit" \/ (to_delete /\ ~pre.to_delete)))
        => (last_call = "ConfirmDelete" /\ pre.deletion_requested)
    /\ (last_call \in {"ConfirmDelete", "CancelDelete"} /\ ~pre.deletion_requested)
        => (ret.tag = "Clean" /\ Self = pre)
    /\ pre.to_delete => to_delete

\* ConfirmDelete was handled with nothing pending, after an earlier
\* confirmation had set the delete intent.
C20_Witness ==
    /\ last_call = "ConfirmDelete"
    /\ ~pre.deletion_requested
    /\ ret.tag = "Clean"
    /\ to_delete

----------------------------------------------------------------------------
(* Vocabulary of the properties about render. *)

\* The five backend calls render can make on the current prompt, each with
\* the condition under which it is made.
RenderPlan ==
    <<[call |-> Call("render_error_message", error.text, <<error.date>>),
       on |-> error.some],
      [call |-> Call("render_calendar_prompt", message, <<>>), on |-> TRUE],
      [call |-> Call("render_calendar", "",
                     <<current_date, config.min_date, config.max_date>>),
       on |-> TRUE],
      [call |-> Call("render_help_message", help_message.text, <<>>),
       on |-> help_message.some],
      [call |-> Call("render_selection_details",
                     IF marked_dates.some /\ current_date \in DOMAIN marked_dates.map
                     THEN marked_dates.map[current_date].details ELSE "",
                     <<>>),
       on |-> marked_dates.some /\ current_date \in DOMAIN marked_dates.map]>>

RenderDue == SelectSeq(RenderPlan, LAMBDA step : step.on)

\* C19: after submit returns Invalid(msg) the next render calls
\* render_error_message(msg) first; render then calls render_calendar_prompt,
\* render_calendar with the cursor date and the bounds, render_help_message
\* if a help text is configured and render_selection_details if the cursor
\* date is in the marked-date index; a failing backend call ends render with
\* that error and no later call is made.
C19_RenderShowsErrorFirst ==
    /\ [](last_call = "render" =>
            /\ Self = pre
            /\ Len(calls) <= Len(RenderDue)
            /\ \A k \in 1..Len(calls) : calls[k] = RenderDue[k].call
            /\ ret.tag = "Ok" => Len(calls) = Len(RenderDue)
            /\ ret.tag # "Ok" => (ret.tag = "IoError" /\ Len(calls) >= 1))
    /\ [][(last_call = "submit" /\ ret.tag = "NoAnswer" /\ last_call' = "render")
          => calls'[1] = Call("render_error_message",
                              FirstFailure(pre.current_date).msg, <<NoDate>>)]_vars

\* render made all five calls, the first with the message of a refused submit.
C19_Witness ==
    /\ last_call = "render"
    /\ ret.tag = "Ok"
    /\ Len(calls) = 5
    /\ calls[1] = Call("render_error_message", "Sundays are not allowed", <<NoDate>>)
    /\ calls[5].name = "render_selection_details"

----------------------------------------------------------------------------
(* Vocabulary of the properties about the filter. *)

\* pat occurs in s as a contiguous run of characters
OccursIn(pat, s) ==
    \E off \in 0..Len(s) :
        /\ off + Len(pat) <= Len(s)
        /\ \A k \in 1..Len(pat) : s[off + k] = pat[k]

\* C16: for every query, label and index the default filter is true exactly
\* when the lowercased label contains the lowercased query as a contiguous
\* substring; the index does not matter and the empty query matches every
\* label.
C16_DefaultFilterIsLowercasedSubstring ==
    filtered.called =>
        /\ filtered.result
             <=> OccursIn(to_lowercase(filtered.filter), to_lowercase(filtered.value))
        /\ \A index \in 0..MaxIndex :
             DEFAULT_FILTER(filtered.filter, filtered.value, index) = filtered.result
        /\ filtered.filter = <<>> => filtered.result

\* a query matched a label in which it does not occur as written
C16_Witness ==
    /\ filtered.called
    /\ filtered.result
    /\ filtered.filter # <<>>
    /\ ~OccursIn(filtered.filter, filtered.value)
    /\ filtered.index = MaxIndex

====
